---- MODULE Spec2Model ----
(***************************************************************************)
(* aibox: a command-line wrapper that launches Docker containers hosting   *)
(* AI coding CLIs.  The module models one host: its profile files, config  *)
(* directories, local images and containers, and the invocations of        *)
(* main() in src/cli.js that run on it one after the other, together with  *)
(* the helpers of config.js, docker.js and prompts.js that main() calls.   *)
(*                                                                         *)
(* JavaScript objects are functions whose DOMAIN is the set of keys that   *)
(* are present; strings are TLA+ strings (sequences of characters), so     *)
(* template literals, join, trim, startsWith and substring are computed    *)
(* character by character as the code computes them.                       *)
(***************************************************************************)
EXTENDS Integers, Sequences, FiniteSets, TLC

(***************************************************************************)
(* Bounds of the model.                                                    *)
(***************************************************************************)
\* how many leftover one-off ("aibox-run") containers the host may start with
MaxOrphans == 1
\* how many trailing CLI arguments an invocation may carry
MaxArgs == 2

(***************************************************************************)
(* Values                                                                  *)
(***************************************************************************)
NULL == "<null>"
EmptyObj == [k \in {} |-> ""]

\* JavaScript truthiness of a string-or-null value
Truthy(v) == v # NULL /\ v # ""

\* Object.assign(a, b)
Assign(a, b) ==
    [k \in (DOMAIN a) \cup (DOMAIN b) |-> IF k \in DOMAIN b THEN b[k] ELSE a[k]]

\* obj.key, with undefined rendered as NULL
Get(obj, k) == IF k \in DOMAIN obj THEN obj[k] ELSE NULL

(***************************************************************************)
(* String helpers                                                          *)
(***************************************************************************)
StartsWith(s, p) == Len(s) >= Len(p) /\ SubSeq(s, 1, Len(p)) = p

RECURSIVE TrimStart(_)
TrimStart(s) ==
    IF Len(s) > 0 /\ SubSeq(s, 1, 1) = " " THEN TrimStart(SubSeq(s, 2, Len(s))) ELSE s

RECURSIVE TrimEnd(_)
TrimEnd(s) ==
    IF Len(s) > 0 /\ SubSeq(s, Len(s), Len(s)) = " "
    THEN TrimEnd(SubSeq(s, 1, Len(s) - 1))
    ELSE s

\* String.prototype.trim
Trim(s) == TrimEnd(TrimStart(s))

\* Array.prototype.join
RECURSIVE Join(_, _)
Join(args, sep) ==
    IF Len(args) = 0 THEN ""
    ELSE IF Len(args) = 1 THEN args[1]
    ELSE args[1] \o sep \o Join(Tail(args), sep)

\* index of the first occurrence of pat in s at or after position i, 0 if none
RECURSIVE IndexFrom(_, _, _)
IndexFrom(s, pat, i) ==
    IF i + Len(pat) - 1 > Len(s) THEN 0
    ELSE IF SubSeq(s, i, i + Len(pat) - 1) = pat THEN i
    ELSE IndexFrom(s, pat, i + 1)

Includes(s, pat) == IndexFrom(s, pat, 1) # 0

\* String.prototype.replace(pat, rep) with a string pattern: first occurrence only
ReplaceFirst(s, pat, rep) ==
    LET i == IndexFrom(s, pat, 1)
    IN  IF i = 0 THEN s
        ELSE SubSeq(s, 1, i - 1) \o rep \o SubSeq(s, i + Len(pat), Len(s))

(***************************************************************************)
(* cli.js: constants and pure helpers                                      *)
(***************************************************************************)
VALID_CLI_TYPES == {"claude", "codex", "gemini"}

getYoloFlags(cliType) ==
    CASE cliType = "claude" -> "--dangerously-skip-permissions"
      [] cliType = "codex"  -> "--sandbox danger-full-access --ask-for-approval never"
      [] cliType = "gemini" -> "--yolo"
      [] OTHER              -> ""

(***************************************************************************)
(* config.js: constants and pure helpers                                   *)
(***************************************************************************)
HOME == "/home/dev"
DEFAULT_IMAGE_NAME == "ghcr.io/zzev/aibox:latest"

RECURSIVE StripSlashes(_)
StripSlashes(s) ==
    IF Len(s) > 0 /\ SubSeq(s, 1, 1) = "/" THEN StripSlashes(SubSeq(s, 2, Len(s))) ELSE s

\* path.join(a, b): the segments are concatenated with one separator, so a
\* leading "/" of b does not make the result absolute
PathJoin(a, b) == IF StripSlashes(b) = "" THEN a ELSE a \o "/" \o StripSlashes(b)

AIBOX_CONFIG_DIR == PathJoin(HOME, ".aibox")
AIBOX_PROFILES_DIR == PathJoin(AIBOX_CONFIG_DIR, "profiles")

getProfilePath(account) == PathJoin(AIBOX_PROFILES_DIR, account \o ".toml")

\* The project directories invocations are made from.  The first two are
\* distinct paths whose MD5 digests share their first eight hex characters.
Paths == {"/home/dev/projects/app66634", "/home/dev/projects/app79492", "/home/dev/api"}

\* crypto.createHash('md5').update(projectPath).digest('hex'), tabulated
Md5Hex(projectPath) ==
    CASE projectPath = "/home/dev/projects/app66634" -> "8e37477a919078f2baaf37eac5efe537"
      [] projectPath = "/home/dev/projects/app79492" -> "8e37477a5340cdaeb7cd2a1b5dd6302d"
      [] projectPath = "/home/dev/api"               -> "e4f623c3280339cc0da2a48c752f5607"

getProjectHash(projectPath) == SubSeq(Md5Hex(projectPath), 1, 8)

(***************************************************************************)
(* Profile files.  A file is absent, or holds TOML tables (keys written    *)
(* "section.key"), or holds the KEY=value text that createProfile writes,  *)
(* or holds text that is no TOML at all.                                   *)
(***************************************************************************)
NoFile == [fmt |-> "none", data |-> EmptyObj]
TomlFile(data) == [fmt |-> "toml", data |-> data]
EnvFile(data) == [fmt |-> "env", data |-> data]
GarbageFile == [fmt |-> "garbage", data |-> EmptyObj]

\* the TOML keys parseTOMLFile reads and the environment names it gives them
TomlToEnv ==
    [k \in {"profile.account", "profile.cli", "git.author_name", "git.author_email",
            "git.committer_name", "git.committer_email", "ssh.key_file", "ssh.path",
            "docker.image", "github.token", "directories.claude", "directories.codex",
            "environment.node_env"} |->
        CASE k = "profile.account"      -> "AI_ACCOUNT"
          [] k = "profile.cli"          -> "AI_CLI"
          [] k = "git.author_name"      -> "GIT_AUTHOR_NAME"
          [] k = "git.author_email"     -> "GIT_AUTHOR_EMAIL"
          [] k = "git.committer_name"   -> "GIT_COMMITTER_NAME"
          [] k = "git.committer_email"  -> "GIT_COMMITTER_EMAIL"
          [] k = "ssh.key_file"         -> "SSH_KEY_FILE"
          [] k = "ssh.path"             -> "SSH_KEY_PATH"
          [] k = "docker.image"         -> "DOCKER_IMAGE"
          [] k = "github.token"         -> "GH_TOKEN"
          [] k = "directories.claude"   -> "CLAUDE_CONFIG_DIR"
          [] k = "directories.codex"    -> "CODEX_HOME"
          [] k = "environment.node_env" -> "NODE_ENV"]

\* TOML.parse succeeds on TOML text only: the KEY=value lines createProfile
\* writes (AI_CLI=claude, CONTAINER_USER=ai) are bare words, which TOML rejects
TomlParses_Any(file) == TRUE

TomlParses(file) == file.fmt = "toml"

parseTOMLFile(file) ==
    IF file.fmt = "none" THEN EmptyObj
    ELSE IF ~TomlParses(file) THEN EmptyObj
    ELSE LET present == {k \in DOMAIN TomlToEnv : k \in DOMAIN file.data /\ Truthy(file.data[k])}
         IN  [e \in {TomlToEnv[k] : k \in present} |->
                 file.data[CHOOSE k \in present : TomlToEnv[k] = e]]

loadProfile(files, account) ==
    IF files[account].fmt = "none" THEN EmptyObj ELSE parseTOMLFile(files[account])

profileExists_Never(files, account) == FALSE

profileExists(files, account) == files[account].fmt # "none"

\* what loadProfile prints: the catch of parseTOMLFile reports the file it
\* could not parse
ParseReports(files, account) ==
    IF files[account].fmt # "none" /\ ~TomlParses(files[account])
    THEN <<"error parsing TOML file">>
    ELSE <<>>

(***************************************************************************)
(* config.js: directories, host probes and the environment                 *)
(***************************************************************************)
getCliConfigDirs(account) ==
    IF account = "default"
    THEN [CLAUDE_CONFIG_DIR |-> PathJoin(HOME, ".claude"),
          CODEX_HOME        |-> PathJoin(HOME, ".codex")]
    ELSE [CLAUDE_CONFIG_DIR |-> PathJoin(HOME, ".claude-" \o account),
          CODEX_HOME        |-> PathJoin(HOME, ".codex-" \o account)]

\* the directories ensureConfigDirs leaves in existence
ensureConfigDirs(ds) == ds \cup {AIBOX_CONFIG_DIR, AIBOX_PROFILES_DIR}

\* the directories ensureCliConfigDirs leaves in existence
ensureCliConfigDirs(ds, files, account) ==
    LET profile == loadProfile(files, account)
        claude  == Get(profile, "CLAUDE_CONFIG_DIR")
        codex   == Get(profile, "CODEX_HOME")
        wanted  ==
            IF Truthy(claude) \/ Truthy(codex)
            THEN (IF Truthy(claude) THEN {PathJoin(HOME, ReplaceFirst(claude, "~/", ""))} ELSE {})
                 \cup
                 (IF Truthy(codex) THEN {PathJoin(HOME, ReplaceFirst(codex, "~/", ""))} ELSE {})
            ELSE {getCliConfigDirs(account).CLAUDE_CONFIG_DIR,
                  getCliConfigDirs(account).CODEX_HOME}
    IN  ds \cup wanted \cup {PathJoin(HOME, ".gemini")}

\* findProjectEnvFile: NULL when nothing is found
findProjectEnvFile_EnvFirst(h, projectRoot, envFile) ==
    IF Truthy(envFile)
    THEN IF envFile \in h.projectFiles THEN PathJoin(projectRoot, envFile) ELSE NULL
    ELSE IF ".env" \in h.projectFiles THEN PathJoin(projectRoot, ".env")
    ELSE IF ".env.local" \in h.projectFiles THEN PathJoin(projectRoot, ".env.local")
    ELSE NULL

findProjectEnvFile(h, projectRoot, envFile) ==
    IF Truthy(envFile)
    THEN IF envFile \in h.projectFiles THEN PathJoin(projectRoot, envFile) ELSE NULL
    ELSE IF ".env.local" \in h.projectFiles THEN PathJoin(projectRoot, ".env.local")
    ELSE IF ".env" \in h.projectFiles THEN PathJoin(projectRoot, ".env")
    ELSE NULL

EndsWith(s, p) == Len(s) >= Len(p) /\ SubSeq(s, Len(s) - Len(p) + 1, Len(s)) = p

\* listSSHKeys, as the set of names it returns
listSSHKeys(h) ==
    IF ~h.sshDir THEN {}
    ELSE {f \in h.sshFiles : StartsWith(f, "id_") /\ ~EndsWith(f, ".pub")}

\* listEnvFiles, as the set of names it returns
listEnvFiles(h) ==
    {f \in h.projectFiles : StartsWith(f, ".env") /\ ~Includes(f, ".example")}

getSSHConfig(h, sshKeyFile) ==
    LET sshDir == PathJoin(HOME, ".ssh")
    IN  IF ~h.sshDir THEN EmptyObj
        ELSE IF Truthy(sshKeyFile)
        THEN IF sshKeyFile \notin h.sshFiles
             THEN [notFound |-> "true", sshKeyFile |-> sshKeyFile]
             ELSE [SSH_KEY_PATH |-> sshDir, SSH_KEY_FILE |-> sshKeyFile]
        ELSE [SSH_KEY_PATH |-> sshDir]

getGlobalGitignore(h) ==
    IF h.gitignore THEN PathJoin(HOME, ".gitignore_global") ELSE NULL

\* a profile directory value with a leading "~/" expanded
ExpandTilde_Verbatim(dir) == dir

ExpandTilde(dir) ==
    IF StartsWith(dir, "~/") THEN PathJoin(HOME, SubSeq(dir, 3, Len(dir))) ELSE dir

buildEnvironment(files, h, account, cli, projectRoot, envFile) ==
    LET base == [AI_ACCOUNT        |-> account,
                 AI_CLI            |-> cli,
                 CONTAINER_USER    |-> "ai",
                 USER_UID          |-> "1001",
                 USER_GID          |-> "1001",
                 AIBOX_PROJECT_DIR |-> projectRoot]
        profile == loadProfile(files, account)
        e1 == Assign(base, profile)
        e2 == Assign(e1,
                [CLAUDE_CONFIG_DIR |->
                    IF Truthy(Get(profile, "CLAUDE_CONFIG_DIR"))
                    THEN ExpandTilde(profile["CLAUDE_CONFIG_DIR"])
                    ELSE getCliConfigDirs(account).CLAUDE_CONFIG_DIR,
                 CODEX_HOME |->
                    IF Truthy(Get(profile, "CODEX_HOME"))
                    THEN ExpandTilde(profile["CODEX_HOME"])
                    ELSE getCliConfigDirs(account).CODEX_HOME])
        sshConfig == getSSHConfig(h, Get(profile, "SSH_KEY_FILE"))
        e3 == IF "notFound" \in DOMAIN sshConfig THEN e2 ELSE Assign(e2, sshConfig)
        e4 == IF getGlobalGitignore(h) # NULL
              THEN Assign(e3, [GITIGNORE_GLOBAL_PATH |-> getGlobalGitignore(h)])
              ELSE e3
        projectEnvPath == findProjectEnvFile(h, projectRoot, envFile)
        e5 == Assign(e4, [ENV_FILE |-> IF Truthy(projectEnvPath) THEN projectEnvPath
                                       ELSE "/dev/null"])
        e6 == Assign(e5, [AI_ENV_FILE        |-> getProfilePath(account),
                          AIBOX_PROJECT_HASH |-> getProjectHash(projectRoot)])
    IN  IF Truthy(Get(e6, "DOCKER_IMAGE")) THEN e6
        ELSE Assign(e6, [DOCKER_IMAGE |-> DEFAULT_IMAGE_NAME])

(***************************************************************************)
(* prompts.js                                                              *)
(***************************************************************************)
\* buildProfileContent: the KEY=value lines written for the answers given
buildProfileContent(account, a) ==
    LET lines == [AI_ACCOUNT          |-> account,
                  AI_CLI              |-> a.aiCli,
                  CONTAINER_USER      |-> "ai",
                  CLAUDE_CONFIG_DIR   |-> a.claudeConfigDir,
                  CODEX_HOME          |-> a.codexHome,
                  GIT_AUTHOR_NAME     |-> a.gitName,
                  GIT_AUTHOR_EMAIL    |-> a.gitEmail,
                  GIT_COMMITTER_NAME  |-> a.gitName,
                  GIT_COMMITTER_EMAIL |-> a.gitEmail,
                  SSH_KEY_PATH        |-> a.sshPath,
                  SSH_KEY_FILE        |-> a.sshFile]
    IN  EnvFile(IF Truthy(a.ghToken) THEN Assign(lines, [GH_TOKEN |-> a.ghToken]) ELSE lines)

\* createProfile: the profile files after the answers were written
createProfile(files, account, a) ==
    [files EXCEPT ![account] = buildProfileContent(account, a)]

(***************************************************************************)
(* docker.js: what the Docker commands report and do.  An image is         *)
(* "absent", or present with `docker image inspect --format                *)
(* '{{index .RepoDigests 0}}'` printing the string held for it.            *)
(***************************************************************************)
ImageNames == {DEFAULT_IMAGE_NAME, "local/aibox:dev"}
NoRepoDigest == "<no value>"
RemoteDigests == {"sha256:0a1b", "sha256:ffee"}
RepoDigest(digest) == "ghcr.io/zzev/aibox@" \o digest

imageExists(imgs, imageName) == imgs[imageName] # "absent"

HexChars == {"0", "1", "2", "3", "4", "5", "6", "7", "8", "9", "a", "b", "c", "d", "e", "f"}

\* the longest run of [a-f0-9] characters at the start of s
RECURSIVE HexRun(_)
HexRun(s) ==
    IF Len(s) > 0 /\ SubSeq(s, 1, 1) \in HexChars
    THEN SubSeq(s, 1, 1) \o HexRun(SubSeq(s, 2, Len(s)))
    ELSE ""

\* result.match(/@(sha256:[a-f0-9]+)/), NULL when there is no match
RECURSIVE MatchDigest(_, _)
MatchDigest(s, i) ==
    LET at == IndexFrom(s, "@sha256:", i)
        hex == HexRun(SubSeq(s, at + 8, Len(s)))
    IN  IF at = 0 THEN NULL
        ELSE IF hex # "" THEN "sha256:" \o hex
        ELSE MatchDigest(s, at + 1)

getLocalImageDigest(imgs, imageName) ==
    IF imgs[imageName] = "absent" THEN NULL
    ELSE IF imgs[imageName] = "" \/ imgs[imageName] = NoRepoDigest THEN NULL
    ELSE MatchDigest(imgs[imageName], 1)

checkImageUpdate_NoCompare(imgs, imageName, remoteDigest) ==
    LET localDigest == getLocalImageDigest(imgs, imageName)
    IN  [available    |-> Truthy(localDigest) /\ Truthy(remoteDigest),
         localDigest  |-> localDigest,
         remoteDigest |-> remoteDigest,
         hasLocal     |-> Truthy(localDigest),
         hasRemote    |-> Truthy(remoteDigest)]

\* checkImageUpdate, given what getRemoteImageDigest returned
checkImageUpdate(imgs, imageName, remoteDigest) ==
    LET localDigest == getLocalImageDigest(imgs, imageName)
    IN  [available    |-> Truthy(localDigest) /\ Truthy(remoteDigest)
                          /\ localDigest # remoteDigest,
         localDigest  |-> localDigest,
         remoteDigest |-> remoteDigest,
         hasLocal     |-> Truthy(localDigest),
         hasRemote    |-> Truthy(remoteDigest)]

\* default exit code of ui.error, and of the catch of bin/aibox.js
ErrorExitCode == 1

\* the exit codes a child process may close with, besides a close by signal
ChildCodes == {0, 1, 42}

\* `code || 0` on the close event: a close by signal carries code null
OrZero_Generic(signalled, code) == IF signalled \/ code = 0 THEN 0 ELSE ErrorExitCode

OrZero(signalled, code) == IF signalled THEN 0 ELSE code

\* process.exit(code) with the code of a close event: null leaves exit code 0
ProcessExitCode(signalled, code) == IF signalled THEN 0 ELSE code

\* the container name docker-compose.yml gives the service, from the
\* environment handed to docker-compose
ComposeContainerName(e) == "aibox-" \o e["AI_ACCOUNT"] \o "-" \o e["AIBOX_PROJECT_HASH"]

\* `docker-compose up -d aibox`: create-or-reuse by name
ComposeUp(cs, e, who) ==
    IF \E c \in cs : c.name = ComposeContainerName(e) THEN cs
    ELSE cs \cup {[name |-> ComposeContainerName(e), kind |-> "service", owner |-> who]}

\* the name of a one-off container of `docker-compose run`
RunContainerName(n) == "aibox-aibox-run-" \o ToString(n)

\* `docker-compose down --remove-orphans`: removes the containers `up` created
ComposeDown(cs) == {c \in cs : c.kind # "service"}

\* docker ps -a --filter "name=aibox-run": the names containing the filter
RunFilter(cs) == {c \in cs : Includes(c.name, "aibox-run")}

\* startContainer: spawn('docker-compose', ['-f', composeFile, 'up', '-d', 'aibox'])
startContainer_AlwaysNew(cs, e, who) ==
    IF \E c \in cs : c.name = ComposeContainerName(e)
    THEN cs \cup {[name |-> ComposeContainerName(e) \o "-2", kind |-> "service",
                   owner |-> who]}
    ELSE ComposeUp(cs, e, who)

startContainer(cs, e, who) == ComposeUp(cs, e, who)

(***************************************************************************)
(* Inputs of an invocation                                                 *)
(***************************************************************************)
Accounts == {"default", "work"}
ArgWords == {"foo", "--help"}
ArgLists == UNION {[1..n -> ArgWords] : n \in 0..MaxArgs}

\* -t/--type: commander's default is 'claude'; typeGiven says that -t or
\* --type occurs in program.rawArgs
TypeInputs ==
    {[type |-> "claude", typeGiven |-> FALSE]}
    \cup {[type |-> t, typeGiven |-> TRUE] : t \in VALID_CLI_TYPES \cup {"gpt"}}

\* the inputs of command resolution
CmdInputs ==
    {[command |-> c, yolo |-> y, shell |-> s, type |-> t.type, typeGiven |-> t.typeGiven,
      args |-> a] :
        c \in {NULL, "", "npm test"}, y \in BOOLEAN, s \in BOOLEAN,
        t \in TypeInputs, a \in ArgLists}

\* the command-resolution inputs the invocations of the host are drawn from
MainCmdInputs ==
    {i \in CmdInputs :
        \/ i.command = NULL /\ ~i.yolo /\ ~i.shell /\ ~i.typeGiven /\ i.args = <<>>
        \/ i.command = "npm test" /\ ~i.yolo /\ ~i.shell /\ ~i.typeGiven /\ i.args = <<>>
        \/ i.command = NULL /\ i.yolo /\ ~i.shell /\ i.type = "codex" /\ i.args = <<"foo">>
        \/ i.command = NULL /\ ~i.yolo /\ ~i.shell /\ i.type = "gpt" /\ i.args = <<>>}

MainPaths == {"/home/dev/projects/app66634", "/home/dev/api"}

Options(setup, f, account, i) ==
    [setup |-> setup, update |-> f.update, attach |-> f.attach, clean |-> f.clean,
     remove |-> f.remove, account |-> account, type |-> i.type,
     typeGiven |-> i.typeGiven, shell |-> i.shell, command |-> i.command,
     yolo |-> i.yolo]

FlagSets == [update : BOOLEAN, attach : BOOLEAN, clean : BOOLEAN, remove : BOOLEAN]

NoFlags == [update |-> FALSE, attach |-> FALSE, clean |-> FALSE, remove |-> FALSE]

NoOptions ==
    Options(NULL, NoFlags, "default", [type |-> "claude", typeGiven |-> FALSE, shell |-> FALSE,
                        command |-> NULL, yolo |-> FALSE])

\* the answers given to the prompts of createProfile
ProfileAnswers(account) ==
    {[gitName |-> "Dev", gitEmail |-> "dev@example.com", aiCli |-> "claude",
      claudeConfigDir |-> IF account = "default" THEN "~/.claude" ELSE "~/.claude-" \o account,
      codexHome |-> IF account = "default" THEN "~/.codex" ELSE "~/.codex-" \o account,
      sshPath |-> "~/.ssh", sshFile |-> "id_rsa", ghToken |-> ""]}

(***************************************************************************)
(* State                                                                   *)
(***************************************************************************)
VARIABLES
    \* the host
    profiles,       \* account -> profile file
    dirs,           \* the configuration directories that exist
    images,         \* image name -> local state
    containers,     \* the containers that exist: [name, kind, owner]
    host,           \* the host facts the probes read
    \* the running invocation of main()
    pc,             \* where main() is
    opts,           \* program.opts()
    cliArgs,        \* program.args
    cwd,            \* process.cwd()
    env,            \* the environment buildEnvironment returned
    containerName,  \* the const containerName of main()
    command,        \* the resolved command
    isInteractive,
    exitCode,       \* the code of process.exit, meaningful when pc = "done"
    \* observations of the running invocation
    trace,          \* the steps and Docker operations done so far, in order
    modes,          \* the modes executed so far
    child,          \* the command run in the container and how it ended
    lastStart,      \* the start-or-reuse step: what existed before, what was created
    update,         \* what update-check saw and did
    invocations,    \* how many invocations were started
    seen,           \* the container names earlier invocations computed
    call            \* a call of buildEnvironment(options) and what it returned

hostVars == <<profiles, dirs, images, containers, host>>
procVars == <<pc, opts, cliArgs, cwd, env, containerName, command, isInteractive, exitCode>>
obsVars == <<trace, modes, child, lastStart, update>>
runVars == <<invocations, seen, call>>
vars == <<hostVars, procVars, obsVars, runVars>>

\* how many invocations of main() a behaviour holds
MaxInvocations == 2

NoCall == [state |-> "none", options |-> EmptyObj, env |-> EmptyObj]
NoChild == [ran |-> FALSE, signalled |-> FALSE, code |-> 0]
NoStart == [done |-> FALSE, existed |-> FALSE, mine |-> FALSE, created |-> FALSE]
NoUpdate == [checked |-> FALSE, local |-> "", remote |-> "", asked |-> FALSE,
             confirmed |-> FALSE]

Identity == <<opts.account, cwd>>

\* the profile files a host may hold when the first invocation starts
OverrideProfile ==
    TomlFile([k \in {"profile.account", "docker.image", "directories.claude"} |->
        CASE k = "profile.account"    -> "work"
          [] k = "docker.image"       -> "local/aibox:dev"
          [] k = "directories.claude" -> "~/.cfg/claude"])

PlainProfile == TomlFile([k \in {"git.author_name"} |-> "Dev"])

\* a profile of account work that names account default
CrossProfile == TomlFile([k \in {"profile.account"} |-> "default"])

InitialProfiles ==
    {[a \in Accounts |-> NoFile],
     [a \in Accounts |-> IF a = "default" THEN OverrideProfile ELSE PlainProfile],
     [a \in Accounts |-> IF a = "default" THEN OverrideProfile ELSE CrossProfile],
     [a \in Accounts |-> IF a = "default" THEN GarbageFile ELSE NoFile]}

InitialImages ==
    {[n \in ImageNames |-> "absent"],
     [n \in ImageNames |-> IF n = DEFAULT_IMAGE_NAME THEN RepoDigest("sha256:0a1b")
                           ELSE NoRepoDigest]}

InitialHosts ==
    {[sshDir |-> TRUE, sshFiles |-> {"id_rsa", "id_rsa.pub", "config"},
      gitignore |-> FALSE, projectFiles |-> {".env", ".env.example"}]}

\* leftovers of earlier temporary runs that were interrupted
InitialContainers ==
    {{[name |-> RunContainerName(i), kind |-> "run",
       owner |-> <<"default", "/home/dev/api">>] : i \in 1..n} : n \in 0..MaxOrphans}

Init ==
    /\ profiles \in InitialProfiles
    /\ dirs = {}
    /\ images \in InitialImages
    /\ containers \in InitialContainers
    /\ host \in InitialHosts
    /\ pc = "idle"
    /\ opts = NoOptions
    /\ cliArgs = <<>>
    /\ cwd = "/home/dev/api"
    /\ env = EmptyObj
    /\ containerName = ""
    /\ command = ""
    /\ isInteractive = FALSE
    /\ exitCode = 0
    /\ trace = <<>>
    /\ modes = {}
    /\ child = NoChild
    /\ lastStart = NoStart
    /\ update = NoUpdate
    /\ invocations = 0
    /\ seen = {}
    /\ call = NoCall

\* process.exit(code)
Exit(code) == pc' = "done" /\ exitCode' = code

(***************************************************************************)
(* main(), cli.js                                                          *)
(***************************************************************************)
\* lines 113-118: a new process parses its arguments
Start ==
    /\ pc = "idle"
    /\ invocations < MaxInvocations
    /\ invocations' = invocations + 1
    /\ UNCHANGED <<seen, call>>
    /\ \E setup \in {NULL} \cup Accounts, f \in FlagSets, a \in Accounts,
          i \in MainCmdInputs, d \in MainPaths :
          \* flags a mode never reads are left at their defaults
          /\ setup # NULL => (~f.attach /\ ~f.clean /\ ~f.remove /\ a = "default")
          /\ (setup # NULL \/ f.update) =>
                (/\ i.command = NULL /\ ~i.yolo
                 /\ ~i.typeGiven \/ i.type = "gpt"
                 /\ d = "/home/dev/api")
          /\ f.update => (f.attach = f.clean /\ f.clean = f.remove)
          /\ f.attach => (i.command = NULL /\ ~i.yolo /\ i.type = "claude")
          /\ i.type = "gpt" => (~f.attach /\ ~f.clean /\ ~f.remove /\ a = "default")
          /\ (i.command # NULL \/ i.yolo \/ i.typeGiven) => d = "/home/dev/api"
          /\ opts' = Options(setup, f, a, i)
          /\ cliArgs' = i.args
          /\ cwd' = d
    /\ pc' = "parsed"
    /\ UNCHANGED <<hostVars, env, containerName, command, isInteractive, exitCode, obsVars>>

\* lines 120-126: --setup
Setup ==
    /\ pc = "parsed"
    /\ opts.setup # NULL
    /\ dirs' = ensureCliConfigDirs(ensureConfigDirs(dirs), profiles, opts.setup)
    /\ \E a \in ProfileAnswers(opts.setup) :
          profiles' = createProfile(profiles, opts.setup, a)
    /\ trace' = trace \o <<"ensureConfigDirs", "ensureCliConfigDirs", "createProfile">>
    /\ Exit(0)
    /\ UNCHANGED <<images, containers, host, opts, cliArgs, cwd, env, containerName,
                   command, isInteractive, modes, child, lastStart, update, runVars>>

\* lines 128-129 and validateDocker
ValidateDocker_NoExit ==
    /\ pc = "parsed"
    /\ opts.setup = NULL
    /\ \E docker \in {"ok", "not installed", "not running"} :
          trace' = IF docker = "ok" THEN Append(trace, "validateDocker")
                   ELSE trace \o <<"validateDocker", "error: Docker is " \o docker>>
    /\ pc' = "docker_ok"
    /\ UNCHANGED <<hostVars, opts, cliArgs, cwd, env, containerName, command,
                   isInteractive, exitCode, modes, child, lastStart, update, runVars>>

ValidateDocker ==
    /\ pc = "parsed"
    /\ opts.setup = NULL
    /\ \E docker \in {"ok", "not installed", "not running"} :
          IF docker = "ok"
          THEN /\ trace' = Append(trace, "validateDocker")
               /\ pc' = "docker_ok"
               /\ UNCHANGED exitCode
          ELSE /\ trace' = trace \o <<"validateDocker", "error: Docker is " \o docker>>
               /\ Exit(ErrorExitCode)
    /\ UNCHANGED <<hostVars, opts, cliArgs, cwd, env, containerName, command,
                   isInteractive, modes, child, lastStart, update, runVars>>

\* how a spawned `docker pull` closes
PullOutcomes ==
    {[signalled |-> FALSE, code |-> c] : c \in {0, 1}} \cup {[signalled |-> TRUE, code |-> 0]}

PullSucceeded(o) == ~o.signalled /\ o.code = 0

\* how `docker exec` into the named container closes: the command runs only
\* if the container exists, otherwise docker itself fails
ExecOutcomes(cs, name) ==
    IF \E c \in cs : c.name = name
    THEN {[ran |-> TRUE, signalled |-> FALSE, code |-> k] : k \in ChildCodes}
         \cup {[ran |-> TRUE, signalled |-> TRUE, code |-> 0]}
    ELSE {[ran |-> FALSE, signalled |-> FALSE, code |-> 1]}

\* how `docker-compose run --rm` closes
RunOutcomes ==
    {[ran |-> TRUE, signalled |-> FALSE, code |-> k] : k \in ChildCodes}
    \cup {[ran |-> TRUE, signalled |-> TRUE, code |-> 0],
          [ran |-> FALSE, signalled |-> FALSE, code |-> 1]}

\* the if-chain of main() after validateDocker: which mode runs
ModeOf_RemoveFirst(o) ==
    IF o.update THEN "update"
    ELSE IF o.remove THEN "temporary"
    ELSE IF o.attach THEN "attach"
    ELSE "persistent"

ModeOf(o) ==
    IF o.update THEN "update"
    ELSE IF o.attach THEN "attach"
    ELSE IF o.remove THEN "temporary"
    ELSE "persistent"

\* lines 145-165: what update-check does with the result of checkImageUpdate
UpdateDecision_NoLocalCheck(info, shouldUpdate) ==
    IF ~info.hasRemote THEN "remote failed"
    ELSE IF ~info.available THEN "latest"
    ELSE IF ~shouldUpdate THEN "cancelled"
    ELSE "pull"

UpdateDecision(info, shouldUpdate) ==
    IF ~info.hasRemote THEN "remote failed"
    ELSE IF ~info.hasLocal THEN "not present"
    ELSE IF ~info.available THEN "latest"
    ELSE IF ~shouldUpdate THEN "cancelled"
    ELSE "pull"

\* lines 131-168: --update
UpdateCheck ==
    /\ pc = "docker_ok"
    /\ ModeOf(opts) = "update"
    /\ modes' = modes \cup {"update"}
    /\ dirs' = ensureConfigDirs(dirs)
    /\ \E remoteDigest \in {NULL} \cup RemoteDigests, shouldUpdate \in BOOLEAN,
          pull \in PullOutcomes :
          LET profile   == loadProfile(profiles, opts.account)
              imageName == IF Truthy(Get(profile, "DOCKER_IMAGE")) THEN profile["DOCKER_IMAGE"]
                           ELSE DEFAULT_IMAGE_NAME
              info      == checkImageUpdate(images, imageName, remoteDigest)
              decision  == UpdateDecision(info, shouldUpdate)
              asked     == info.hasRemote /\ info.hasLocal /\ info.available
              steps     == trace \o <<"ensureConfigDirs", "loadProfile">>
                                 \o ParseReports(profiles, opts.account)
                                 \o <<"checkImageUpdate">>
          IN  /\ update' = [checked |-> TRUE, local |-> images[imageName],
                            remote |-> remoteDigest, asked |-> decision \in {"cancelled", "pull"},
                            confirmed |-> decision = "pull"]
              /\ CASE decision = "remote failed" ->
                        /\ trace' = Append(steps, "error: failed to check remote image")
                        /\ Exit(ErrorExitCode)
                        /\ UNCHANGED images
                   [] decision = "not present" ->
                        /\ trace' = Append(steps, "warning: image not found locally")
                        /\ Exit(0)
                        /\ UNCHANGED images
                   [] decision = "latest" ->
                        /\ trace' = Append(steps, "success: already the latest version")
                        /\ Exit(0)
                        /\ UNCHANGED images
                   [] decision = "cancelled" ->
                        /\ trace' = steps \o <<"confirmUpdate", "info: update cancelled">>
                        /\ Exit(0)
                        /\ UNCHANGED images
                   [] decision = "pull" /\ PullSucceeded(pull) ->
                        /\ trace' = steps \o <<"confirmUpdate", "docker pull",
                                               "success: image updated">>
                        /\ images' = [images EXCEPT ![imageName] = RepoDigest(remoteDigest)]
                        /\ Exit(0)
                   [] decision = "pull" /\ ~PullSucceeded(pull) ->
                        /\ trace' = steps \o <<"confirmUpdate", "docker pull",
                                               "error: failed to pull image">>
                        /\ Exit(ProcessExitCode(pull.signalled, pull.code))
                        /\ UNCHANGED images
    /\ UNCHANGED <<profiles, containers, host, opts, cliArgs, cwd, env, containerName,
                   command, isInteractive, child, lastStart, runVars>>

\* lines 170-173
ValidateCliType_NoExit ==
    /\ pc = "docker_ok"
    /\ ModeOf(opts) # "update"
    /\ trace' = IF opts.type \in VALID_CLI_TYPES THEN Append(trace, "validateCliType")
                ELSE trace \o <<"validateCliType", "error: invalid CLI type">>
    /\ pc' = "type_ok"
    /\ UNCHANGED <<hostVars, opts, cliArgs, cwd, env, containerName, command,
                   isInteractive, exitCode, modes, child, lastStart, update, runVars>>

ValidateCliType ==
    /\ pc = "docker_ok"
    /\ ModeOf(opts) # "update"
    /\ IF opts.type \in VALID_CLI_TYPES
       THEN /\ trace' = Append(trace, "validateCliType")
            /\ pc' = "type_ok"
            /\ UNCHANGED exitCode
       ELSE /\ trace' = trace \o <<"validateCliType", "error: invalid CLI type">>
            /\ Exit(ErrorExitCode)
    /\ UNCHANGED <<hostVars, opts, cliArgs, cwd, env, containerName, command,
                   isInteractive, modes, child, lastStart, update, runVars>>

\* const containerName = `aibox-${options.account}-${projectHash}`
ContainerName_WithCli(account, projectHash) ==
    "aibox-" \o account \o "-" \o opts.type \o "-" \o projectHash

ContainerName(account, projectHash) == "aibox-" \o account \o "-" \o projectHash

\* lines 175-203: paths, directories, profile, environment, SSH check
ResolveEnvironment ==
    /\ pc = "type_ok"
    /\ containerName' = ContainerName(opts.account, getProjectHash(cwd))
    /\ dirs' = ensureCliConfigDirs(ensureConfigDirs(dirs), profiles, opts.account)
    /\ \E a \in ProfileAnswers(opts.account) :
          profiles' = IF profileExists(profiles, opts.account) THEN profiles
                      ELSE createProfile(profiles, opts.account, a)
    /\ env' = buildEnvironment(profiles', host, opts.account, opts.type, cwd, NULL)
    /\ trace' = trace \o <<"ensureConfigDirs", "ensureCliConfigDirs">>
                      \o ParseReports(profiles, opts.account)
                      \o (IF profileExists(profiles, opts.account)
                          THEN <<"loadProfile">> \o ParseReports(profiles, opts.account)
                          ELSE <<"createProfile">>)
                      \o <<"buildEnvironment">>
                      \o ParseReports(profiles', opts.account)
                      \o (IF "notFound" \in DOMAIN getSSHConfig(host, Get(env', "SSH_KEY_FILE"))
                          THEN <<"warning: SSH key file not found", "listSSHKeys">>
                          ELSE <<>>)
    /\ pc' = "env_ok"
    /\ UNCHANGED <<images, containers, host, opts, cliArgs, cwd, command, isInteractive,
                   exitCode, modes, child, lastStart, update, runVars>>

\* lines 205-208: pull the image if it is not present
EnsureImage ==
    /\ pc = "env_ok"
    /\ IF imageExists(images, env["DOCKER_IMAGE"])
       THEN /\ trace' = Append(trace, "docker image inspect")
            /\ pc' = "image_ok"
            /\ UNCHANGED <<images, exitCode>>
       ELSE \E pull \in PullOutcomes, d \in RemoteDigests :
            /\ trace' = trace \o <<"docker image inspect", "docker pull">>
            /\ IF PullSucceeded(pull)
               THEN /\ images' = [images EXCEPT ![env["DOCKER_IMAGE"]] = RepoDigest(d)]
                    /\ pc' = "image_ok"
                    /\ UNCHANGED exitCode
               ELSE /\ Exit(ProcessExitCode(pull.signalled, pull.code))
                    /\ UNCHANGED images
    /\ UNCHANGED <<profiles, dirs, containers, host, opts, cliArgs, cwd, env,
                   containerName, command, isInteractive, modes, child, lastStart,
                   update, runVars>>

\* lines 210-213 and cleanOrphans: any command that fails makes cleanOrphans
\* throw, which ends main() with the exit code of the catch in bin/aibox.js
CleanOrphans ==
    /\ pc = "image_ok"
    /\ opts.clean
    /\ modes' = modes \cup {"clean"}
    /\ \E downOk \in BOOLEAN :
          IF ~downOk
          THEN /\ trace' = Append(trace, "docker-compose down")
               /\ Exit(ErrorExitCode)
               /\ UNCHANGED containers
          ELSE \E removed \in SUBSET RunFilter(ComposeDown(containers)) :
               /\ containers' = ComposeDown(containers) \ removed
               /\ trace' = trace \o <<"docker-compose down", "docker ps">>
                                 \o (IF RunFilter(ComposeDown(containers)) = {} THEN <<>>
                                     ELSE <<"docker rm">>)
               /\ IF removed = RunFilter(ComposeDown(containers))
                  THEN pc' = "cleaned" /\ UNCHANGED exitCode
                  ELSE Exit(ErrorExitCode)
    /\ UNCHANGED <<profiles, dirs, images, host, opts, cliArgs, cwd, env, containerName,
                   command, isInteractive, child, lastStart, update, runVars>>

\* main() stands before the mode branches
ModeReady == (pc = "image_ok" /\ ~opts.clean) \/ pc = "cleaned"

\* what the start-or-reuse step found and did
StartRecord(before, after) ==
    [done    |-> TRUE,
     existed |-> \E c \in before : c.name = containerName,
     mine    |-> \E c \in before : c.name = containerName /\ c.owner = Identity,
     created |-> after # before]

\* lines 215-221: --attach
Attach_NoAwait ==
    /\ ModeReady
    /\ ModeOf(opts) = "attach"
    /\ modes' = modes \cup {"attach"}
    /\ \E startOk \in BOOLEAN :
          /\ IF startOk
             THEN /\ containers' = startContainer(containers, env, Identity)
                  /\ lastStart' = StartRecord(containers, containers')
             ELSE UNCHANGED <<containers, lastStart>>
          /\ trace' = trace \o <<"docker-compose up", "docker exec">>
          /\ \E o \in ExecOutcomes(containers', containerName) :
                /\ child' = o
                /\ Exit(OrZero(o.signalled, o.code))
    /\ UNCHANGED <<profiles, dirs, images, host, opts, cliArgs, cwd, env, containerName,
                   command, isInteractive, update, runVars>>

Attach ==
    /\ ModeReady
    /\ ModeOf(opts) = "attach"
    /\ modes' = modes \cup {"attach"}
    /\ \E startOk \in BOOLEAN :
          IF ~startOk
          THEN /\ trace' = Append(trace, "docker-compose up")
               /\ Exit(ErrorExitCode)
               /\ UNCHANGED <<containers, child, lastStart>>
          ELSE /\ containers' = startContainer(containers, env, Identity)
               /\ lastStart' = StartRecord(containers, containers')
               /\ trace' = trace \o <<"docker-compose up", "docker exec">>
               /\ \E o \in ExecOutcomes(containers', containerName) :
                     /\ child' = o
                     /\ Exit(OrZero(o.signalled, o.code))
    /\ UNCHANGED <<profiles, dirs, images, host, opts, cliArgs, cwd, env, containerName,
                   command, isInteractive, update, runVars>>

\* scripts/start.sh, "Prepare the command to run": DOCKER_COMMAND and
\* INTERACTIVE_SHELL; -s only presets INTERACTIVE_SHELL, which every branch
\* assigns again
PrepareCommand(o, args) ==
    IF Truthy(o.command)
    THEN [command |-> o.command, isInteractive |-> FALSE]
    ELSE IF o.yolo
    THEN [command |-> o.type \o " " \o getYoloFlags(o.type) \o " " \o Join(args, " "),
          isInteractive |-> FALSE]
    ELSE IF Len(args) > 0
    THEN [command |-> o.type \o " " \o Join(args, " "), isInteractive |-> FALSE]
    ELSE IF o.typeGiven
    THEN [command |-> o.type, isInteractive |-> FALSE]
    ELSE [command |-> "/bin/bash", isInteractive |-> TRUE]

\* lines 223-248: the command to run and whether it is the interactive shell
ResolveCommand_ArgsFirst(o, args) ==
    IF Len(args) > 0
    THEN [command |-> o.type \o " " \o Join(args, " "), isInteractive |-> FALSE]
    ELSE IF Truthy(o.command)
    THEN [command |-> o.command, isInteractive |-> FALSE]
    ELSE IF o.yolo
    THEN [command |-> Trim(o.type \o " " \o getYoloFlags(o.type) \o " " \o Join(args, " ")),
          isInteractive |-> FALSE]
    ELSE IF o.shell
    THEN [command |-> "/bin/bash", isInteractive |-> TRUE]
    ELSE IF o.typeGiven
    THEN [command |-> o.type, isInteractive |-> FALSE]
    ELSE [command |-> "/bin/bash", isInteractive |-> TRUE]

ResolveCommand_YoloDropsArgs(o, args) ==
    IF Truthy(o.command)
    THEN [command |-> o.command, isInteractive |-> FALSE]
    ELSE IF o.yolo
    THEN [command |-> Trim(o.type \o " " \o getYoloFlags(o.type)),
          isInteractive |-> FALSE]
    ELSE IF Len(args) > 0
    THEN [command |-> o.type \o " " \o Join(args, " "), isInteractive |-> FALSE]
    ELSE IF o.shell
    THEN [command |-> "/bin/bash", isInteractive |-> TRUE]
    ELSE IF o.typeGiven
    THEN [command |-> o.type, isInteractive |-> FALSE]
    ELSE [command |-> "/bin/bash", isInteractive |-> TRUE]

ResolveCommand_ProfileCli(o, args) ==
    IF Truthy(o.command)
    THEN [command |-> o.command, isInteractive |-> FALSE]
    ELSE IF o.yolo
    THEN [command |-> Trim(env["AI_CLI"] \o " " \o getYoloFlags(env["AI_CLI"]) \o " "
                          \o Join(args, " ")),
          isInteractive |-> FALSE]
    ELSE IF Len(args) > 0
    THEN [command |-> env["AI_CLI"] \o " " \o Join(args, " "), isInteractive |-> FALSE]
    ELSE IF o.shell
    THEN [command |-> "/bin/bash", isInteractive |-> TRUE]
    ELSE IF o.typeGiven
    THEN [command |-> o.type, isInteractive |-> FALSE]
    ELSE [command |-> "/bin/bash", isInteractive |-> TRUE]

ResolveCommand(o, args) ==
    IF Truthy(o.command)
    THEN [command |-> o.command, isInteractive |-> FALSE]
    ELSE IF o.yolo
    THEN [command |-> Trim(o.type \o " " \o getYoloFlags(o.type) \o " " \o Join(args, " ")),
          isInteractive |-> FALSE]
    ELSE IF Len(args) > 0
    THEN [command |-> o.type \o " " \o Join(args, " "), isInteractive |-> FALSE]
    ELSE IF o.shell
    THEN [command |-> "/bin/bash", isInteractive |-> TRUE]
    ELSE IF o.typeGiven
    THEN [command |-> o.type, isInteractive |-> FALSE]
    ELSE [command |-> "/bin/bash", isInteractive |-> TRUE]

DetermineCommand ==
    /\ ModeReady
    /\ ModeOf(opts) \in {"temporary", "persistent"}
    /\ command' = ResolveCommand(opts, cliArgs).command
    /\ isInteractive' = ResolveCommand(opts, cliArgs).isInteractive
    /\ pc' = "resolved"
    /\ UNCHANGED <<hostVars, opts, cliArgs, cwd, env, containerName, exitCode, obsVars,
                   runVars>>

\* lines 266-274 and 288: --remove
RunTemporary ==
    /\ pc = "resolved"
    /\ ModeOf(opts) = "temporary"
    /\ modes' = modes \cup {"temporary"}
    /\ trace' = Append(trace, "docker-compose run")
    /\ \E o \in RunOutcomes :
          /\ child' = o
          /\ Exit(OrZero(o.signalled, o.code))
    /\ UNCHANGED <<hostVars, opts, cliArgs, cwd, env, containerName, command,
                   isInteractive, lastStart, update, runVars>>

\* lines 275-288: the persistent container
RunPersistent ==
    /\ pc = "resolved"
    /\ ModeOf(opts) = "persistent"
    /\ modes' = modes \cup {"persistent"}
    /\ \E startOk \in BOOLEAN :
          IF ~startOk
          THEN /\ trace' = Append(trace, "docker-compose up")
               /\ Exit(ErrorExitCode)
               /\ UNCHANGED <<containers, child, lastStart>>
          ELSE /\ containers' = startContainer(containers, env, Identity)
               /\ lastStart' = StartRecord(containers, containers')
               /\ trace' = trace \o <<"docker-compose up", "docker exec">>
               /\ \E o \in ExecOutcomes(containers', containerName) :
                     /\ child' = o
                     /\ Exit(OrZero(o.signalled, o.code))
    /\ UNCHANGED <<profiles, dirs, images, host, opts, cliArgs, cwd, env, containerName,
                   command, isInteractive, update, runVars>>

\* the process is gone
Terminate ==
    /\ pc = "done"
    /\ pc' = "idle"
    /\ opts' = NoOptions
    /\ cliArgs' = <<>>
    /\ cwd' = "/home/dev/api"
    /\ env' = EmptyObj
    /\ containerName' = ""
    /\ command' = ""
    /\ isInteractive' = FALSE
    /\ exitCode' = 0
    /\ trace' = <<>>
    /\ modes' = {}
    /\ child' = NoChild
    /\ lastStart' = NoStart
    /\ update' = NoUpdate
    /\ UNCHANGED <<hostVars, runVars>>

Next ==
    \/ Start
    \/ Setup
    \/ ValidateDocker
    \/ UpdateCheck
    \/ ValidateCliType
    \/ ResolveEnvironment
    \/ EnsureImage
    \/ CleanOrphans
    \/ Attach
    \/ DetermineCommand
    \/ RunTemporary
    \/ RunPersistent
    \/ Terminate

Spec == Init /\ [][Next]_vars

(***************************************************************************)
(* Command resolution: main() stands before the mode branches of a         *)
(* temporary or persistent run, for every combination of its inputs        *)
(***************************************************************************)
\* a profile that names codex as its CLI
CodexProfile == TomlFile([k \in {"profile.cli"} |-> "codex"])

CmdProfiles == {[a \in Accounts |-> f] : f \in {PlainProfile, CodexProfile}}

\* no container, or the container of the account and project
CmdContainers ==
    {{}, {[name |-> ContainerName("default", getProjectHash("/home/dev/api")),
           kind |-> "service", owner |-> <<"default", "/home/dev/api">>]}}

InitCmd ==
    /\ profiles \in CmdProfiles
    /\ dirs = ensureCliConfigDirs(ensureConfigDirs({}), profiles, "default")
    /\ images = [n \in ImageNames |-> RepoDigest("sha256:0a1b")]
    /\ containers = {}
    /\ host \in InitialHosts
    /\ pc = "image_ok"
    /\ \E i \in CmdInputs, r \in BOOLEAN :
          /\ i.type \in VALID_CLI_TYPES
          /\ opts = Options(NULL, [NoFlags EXCEPT !.remove = r], "default", i)
          /\ cliArgs = i.args
    /\ cwd = "/home/dev/api"
    /\ env = buildEnvironment(profiles, host, opts.account, opts.type, cwd, NULL)
    /\ containerName = ContainerName(opts.account, getProjectHash(cwd))
    /\ command = ""
    /\ isInteractive = FALSE
    /\ exitCode = 0
    /\ trace = <<"validateDocker", "validateCliType", "ensureConfigDirs",
                 "ensureCliConfigDirs", "loadProfile", "buildEnvironment",
                 "docker image inspect">>
    /\ modes = {}
    /\ child = NoChild
    /\ lastStart = NoStart
    /\ update = NoUpdate
    /\ invocations = 1
    /\ seen = {}
    /\ call = NoCall

\* the next invocation, made with the same custom command, --yolo, --shell,
\* CLI type and trailing arguments; whether -t was written, --remove, the
\* profile and the containers may all differ.  The resolution of the
\* invocation before is kept.
InvokeAgain ==
    /\ pc = "resolved"
    /\ invocations < MaxInvocations
    /\ invocations' = invocations + 1
    /\ seen' = seen \cup {[command |-> opts.command, yolo |-> opts.yolo, shell |-> opts.shell,
                            type |-> opts.type, args |-> cliArgs,
                            typeGiven |-> opts.typeGiven, remove |-> opts.remove,
                            profile |-> profiles[opts.account],
                            resolved |-> command, interactive |-> isInteractive]}
    /\ \E g \in BOOLEAN, r \in BOOLEAN :
          /\ ~g => opts.type = "claude"
          /\ opts' = [opts EXCEPT !.typeGiven = g, !.remove = r]
    /\ profiles' \in CmdProfiles
    /\ containers' \in CmdContainers
    /\ env' = buildEnvironment(profiles', host, opts.account, opts.type, cwd, NULL)
    /\ command' = ""
    /\ isInteractive' = FALSE
    /\ pc' = "image_ok"
    /\ UNCHANGED <<dirs, images, host, cliArgs, cwd, containerName, exitCode, obsVars, call>>

NextCmd ==
    \/ DetermineCommand
    \/ InvokeAgain

SpecCmd == InitCmd /\ [][NextCmd]_vars

\* the unsafe flags of each CLI type, as documented
C5_UnsafeFlags ==
    [t \in VALID_CLI_TYPES |->
        CASE t = "claude" -> "--dangerously-skip-permissions"
          [] t = "codex"  -> "--sandbox danger-full-access --ask-for-approval never"
          [] t = "gemini" -> "--yolo"]

\* the number of the first rule of the priority order that matches
C5_FirstRule ==
    CASE Truthy(opts.command) -> 1
      [] ~Truthy(opts.command) /\ opts.yolo -> 2
      [] ~Truthy(opts.command) /\ ~opts.yolo /\ cliArgs # <<>> -> 3
      [] ~Truthy(opts.command) /\ ~opts.yolo /\ cliArgs = <<>> /\ opts.shell -> 4
      [] ~Truthy(opts.command) /\ ~opts.yolo /\ cliArgs = <<>> /\ ~opts.shell
            /\ opts.typeGiven -> 5
      [] OTHER -> 6

C6_YoloIgnoresArgs ==
    (pc = "resolved" /\ ~Truthy(opts.command) /\ opts.yolo)
        => command = opts.type \o " " \o C5_UnsafeFlags[opts.type]

\* C6, amended: in unsafe mode without custom command the unsafe-mode rule
\* wins over the trailing-arguments rule, and the resolved command is the CLI
\* with its unsafe flags followed by the trailing arguments; type codex with
\* the argument foo gives
\* "codex --sandbox danger-full-access --ask-for-approval never foo".
C6_YoloAppendsArgs ==
    (pc = "resolved" /\ ~Truthy(opts.command) /\ opts.yolo)
        => /\ ~isInteractive
           /\ cliArgs = <<>> => command = opts.type \o " " \o C5_UnsafeFlags[opts.type]
           /\ cliArgs # <<>> =>
                 command = opts.type \o " " \o C5_UnsafeFlags[opts.type] \o " "
                              \o Join(cliArgs, " ")
           /\ (opts.type = "codex" /\ cliArgs = <<"foo">>) =>
                 command = "codex --sandbox danger-full-access --ask-for-approval never foo"

\* unsafe mode, type codex, trailing argument foo
C6_Witness ==
    /\ pc = "resolved"
    /\ opts.command = NULL /\ opts.yolo /\ opts.type = "codex"
    /\ cliArgs = <<"foo">>
    /\ command = "codex --sandbox danger-full-access --ask-for-approval never foo"

(***************************************************************************)
(* Container identity: invocations one after the other, each computing its *)
(* container name, with any account, path, CLI type, flags and host state  *)
(***************************************************************************)
InitId ==
    /\ profiles \in InitialProfiles
    /\ dirs = {}
    /\ images = [n \in ImageNames |-> RepoDigest("sha256:0a1b")]
    /\ containers \in InitialContainers
    /\ host \in InitialHosts
    /\ pc = "idle"
    /\ opts = NoOptions
    /\ cliArgs = <<>>
    /\ cwd = "/home/dev/api"
    /\ env = EmptyObj
    /\ containerName = ""
    /\ command = ""
    /\ isInteractive = FALSE
    /\ exitCode = 0
    /\ trace = <<>>
    /\ modes = {}
    /\ child = NoChild
    /\ lastStart = NoStart
    /\ update = NoUpdate
    /\ invocations = 0
    /\ seen = {}
    /\ call = NoCall

\* an invocation that got past the validation of its CLI type; the name the
\* invocation before it computed is kept
Invoke ==
    /\ pc \in {"idle", "env_ok"}
    /\ invocations < MaxInvocations
    /\ invocations' = invocations + 1
    /\ seen' = IF pc = "env_ok"
               THEN seen \cup {[account |-> opts.account, path |-> cwd, type |-> opts.type,
                                name |-> containerName]}
               ELSE seen
    /\ \E f \in FlagSets, a \in Accounts, t \in VALID_CLI_TYPES, y \in BOOLEAN, d \in Paths :
          /\ ~f.update /\ ~f.clean /\ ~f.attach
          /\ opts' = Options(NULL, f, a, [type |-> t, typeGiven |-> TRUE, shell |-> FALSE,
                                          command |-> NULL, yolo |-> y])
          /\ cwd' = d
    /\ cliArgs' = <<>>
    /\ pc' = "type_ok"
    /\ trace' = <<"validateDocker", "validateCliType">>
    /\ env' = EmptyObj
    /\ containerName' = ""
    /\ UNCHANGED <<hostVars, command, isInteractive, exitCode, modes, child, lastStart,
                   update, call>>

NextId ==
    \/ Invoke
    \/ ResolveEnvironment

SpecId == InitId /\ [][NextId]_vars

\* C3: invocations with the same account and the same project path compute
\* the same container name, whatever the CLI type, the flags, the profile
\* and the containers of the host are.
C3_SameIdentitySameName ==
    pc = "env_ok" =>
       \A r \in seen :
          (r.account = opts.account /\ r.path = cwd) => r.name = containerName

\* two invocations of one account and path, with different CLI types
C3_Witness ==
    /\ pc = "env_ok"
    /\ \E r \in seen :
          /\ r.account = opts.account /\ r.path = cwd
          /\ r.type # opts.type
          /\ r.name = containerName

\* C4: invocations of one account with different project paths compute
\* different container names.
C4_DistinctPathsDistinctNames ==
    pc = "env_ok" =>
       \A r \in seen :
          (r.account = opts.account /\ r.path # cwd) => r.name # containerName


(***************************************************************************)
(* The resolver: buildEnvironment(options) called with any options, on any *)
(* host and with any profile file of the account                           *)
(***************************************************************************)
\* a profile with every table filled in
FullToml ==
    [k \in {"git.author_name", "git.author_email", "git.committer_name",
            "git.committer_email", "ssh.key_file", "directories.claude",
            "directories.codex"} |->
        CASE k = "git.author_name"     -> "Dev"
          [] k = "git.author_email"    -> "dev@example.com"
          [] k = "git.committer_name"  -> "Bot"
          [] k = "git.committer_email" -> "bot@example.com"
          [] k = "ssh.key_file"        -> "id_work"
          [] k = "directories.claude"  -> "~/.cfg/claude"
          [] k = "directories.codex"   -> "/opt/codex"]

\* a profile with the [profile] and [ssh] tables filled in
TablesToml ==
    [k \in {"profile.account", "profile.cli", "ssh.path", "ssh.key_file"} |->
        CASE k = "profile.account" -> "work"
          [] k = "profile.cli"     -> "codex"
          [] k = "ssh.path"        -> "/keys"
          [] k = "ssh.key_file"    -> "id_work"]

\* the profile files of the account: none, unparseable, written by
\* createProfile, or TOML with any of the tables left out
CallProfiles ==
    {NoFile, GarbageFile}
    \cup UNION {{buildProfileContent(a, x) : x \in ProfileAnswers(a)} : a \in Accounts}
    \cup {TomlFile([k \in K |-> FullToml[k]]) : K \in SUBSET DOMAIN FullToml}
    \cup {TomlFile([k \in K |-> TablesToml[k]]) : K \in SUBSET DOMAIN TablesToml}

\* without ~/.ssh there are no files in it
CallHosts ==
    {h \in [sshDir : BOOLEAN,
            sshFiles : {{}, {"id_rsa", "id_rsa.pub", "config"},
                        {"id_rsa", "id_work", "id_work.pub"}},
            gitignore : BOOLEAN,
            projectFiles : SUBSET {".env.local", ".env", ".env.example", ".env.staging"}] :
        h.sshDir = (h.sshFiles # {})}

\* the options object: envFile is left out (NULL) or names a file
CallOptions ==
    [account : Accounts, cli : {"claude"}, projectRoot : {"/home/dev/api"},
     envFile : {NULL, ".env.staging", ".env.example"}]

InitCall ==
    /\ \E f \in CallProfiles : profiles = [a \in Accounts |-> f]
    /\ dirs = {}
    /\ images = [n \in ImageNames |-> RepoDigest("sha256:0a1b")]
    /\ containers = {}
    /\ host \in CallHosts
    /\ pc = "idle"
    /\ opts = NoOptions
    /\ cliArgs = <<>>
    /\ cwd = "/home/dev/api"
    /\ env = EmptyObj
    /\ containerName = ""
    /\ command = ""
    /\ isInteractive = FALSE
    /\ exitCode = 0
    /\ trace = <<>>
    /\ modes = {}
    /\ child = NoChild
    /\ lastStart = NoStart
    /\ update = NoUpdate
    /\ invocations = 0
    /\ seen = {}
    /\ \E o \in CallOptions : call = [state |-> "called", options |-> o, env |-> EmptyObj]

\* buildEnvironment runs to its return statement: nothing in it throws
BuildEnvironmentCall ==
    /\ call.state = "called"
    /\ call' = [call EXCEPT
                  !.state = "returned",
                  !.env = buildEnvironment(profiles, host, call.options.account,
                                           call.options.cli, call.options.projectRoot,
                                           call.options.envFile)]
    /\ UNCHANGED <<hostVars, procVars, obsVars, invocations, seen>>

NextCall == BuildEnvironmentCall

SpecCall == InitCall /\ [][NextCall]_vars

(***************************************************************************)
(* One session: main() from the validated CLI type to the end of a         *)
(* persistent run, on any host and with any profile file of the account    *)
(***************************************************************************)
SessionHosts == {h \in CallHosts : h.projectFiles \subseteq {".env"}}

InitSession ==
    /\ \E f \in CallProfiles : profiles = [a \in Accounts |-> f]
    /\ dirs = {}
    /\ images = [n \in ImageNames |-> RepoDigest("sha256:0a1b")]
    /\ containers = {}
    /\ host \in SessionHosts
    /\ pc = "type_ok"
    /\ \E a \in Accounts :
          opts = Options(NULL, NoFlags, a, [type |-> "claude", typeGiven |-> FALSE,
                                            shell |-> FALSE, command |-> NULL,
                                            yolo |-> FALSE])
    /\ cliArgs = <<>>
    /\ cwd = "/home/dev/api"
    /\ env = EmptyObj
    /\ containerName = ""
    /\ command = ""
    /\ isInteractive = FALSE
    /\ exitCode = 0
    /\ trace = <<"validateDocker", "validateCliType">>
    /\ modes = {}
    /\ child = NoChild
    /\ lastStart = NoStart
    /\ update = NoUpdate
    /\ invocations = 1
    /\ seen = {}
    /\ call = NoCall

NextSession ==
    \/ ResolveEnvironment
    \/ EnsureImage
    \/ DetermineCommand
    \/ RunPersistent

SpecSession == InitSession /\ [][NextSession]_vars

(***************************************************************************)
(* Properties of an invocation                                             *)
(***************************************************************************)
\* the steps and Docker operations the running invocation has done
TraceOps == {trace[i] : i \in DOMAIN trace}

Finished == pc = "done"

\* C1: persistent runs of one (account, project path) never hold more than
\* one container of that identity, and a persistent run that finds the
\* container of its identity, left by an earlier run of the same identity,
\* creates no container in its start-or-reuse step.
C1_IdempotentStart ==
    /\ \A c1, c2 \in containers : c1.name = c2.name => c1 = c2
    /\ (Finished /\ "persistent" \in modes /\ lastStart.done /\ lastStart.mine)
          => ~lastStart.created

\* a second persistent run of the same identity has reused the container
C1_Witness ==
    /\ Finished
    /\ "persistent" \in modes
    /\ invocations = 2
    /\ lastStart.done /\ lastStart.mine /\ ~lastStart.created
    /\ Cardinality({c \in containers : c.name = containerName}) = 1

\* C2: in persistent run, temporary run and attach, a command that ran in
\* the container and exited with a non-zero code makes the process exit with
\* that same code.
C2_ExitCodePropagated ==
    (/\ Finished
     /\ modes \cap {"persistent", "temporary", "attach"} # {}
     /\ child.ran /\ ~child.signalled /\ child.code # 0)
        => exitCode = child.code

\* a temporary run has passed on the code 42 of its command
C2_Witness ==
    /\ Finished
    /\ "temporary" \in modes
    /\ child.ran /\ ~child.signalled /\ child.code = 42
    /\ exitCode = 42

\* C7 as stated: update-check, attach, clean, temporary run and persistent
\* run are mutually exclusive, so no invocation executes two of them.
C7_FiveModesExclusive == Cardinality(modes) <= 1

\* the mode the priority order update, attach, temporary, persistent selects
C7_Selected ==
    CASE opts.update -> "update"
      [] ~opts.update /\ opts.attach -> "attach"
      [] ~opts.update /\ ~opts.attach /\ opts.remove -> "temporary"
      [] OTHER -> "persistent"

\* the Docker operations of each mode
C7_ModeOps(m) ==
    CASE m = "update"     -> {"docker pull"}
      [] m = "attach"     -> {"docker-compose up", "docker exec"}
      [] m = "temporary"  -> {"docker-compose run"}
      [] m = "persistent" -> {"docker-compose up", "docker exec"}
      [] m = "clean"      -> {"docker-compose down", "docker ps", "docker rm"}

C7_AllOps == UNION {C7_ModeOps(m) : m \in {"update", "attach", "temporary", "persistent",
                                           "clean"}}

\* C7, amended: update-check, attach, temporary run and persistent run are
\* mutually exclusive and selected in that priority order; an invocation that
\* ran a command executed exactly one of them; the cleanup of --clean is a
\* step that precedes attach, temporary run or persistent run (never
\* update-check); the Docker operations issued are those of the modes
\* executed, besides the image pull that precedes the modes.
C7_ModesAmended ==
    /\ Cardinality(modes \ {"clean"}) <= 1
    /\ modes \ {"clean"} \subseteq {C7_Selected}
    /\ "clean" \in modes => (opts.clean /\ ~opts.update)
    /\ (opts.clean /\ modes \ {"clean"} # {}) => "clean" \in modes \/ opts.update
    /\ child.ran => Cardinality(modes \ {"clean"}) = 1
    /\ (TraceOps \cap C7_AllOps) \ {"docker pull"} \subseteq UNION {C7_ModeOps(m) : m \in modes}

\* --clean --attach: the cleanup ran and then attach ran a command
C7_Witness ==
    /\ Finished
    /\ modes = {"clean", "attach"}
    /\ child.ran
    /\ {"docker-compose down", "docker-compose up", "docker exec"} \subseteq TraceOps

\* the image update-check looked at had no local digest
C8_NoLocalDigest == update.checked /\ update.local \in {"absent", NoRepoDigest}

\* C8 as stated: update-check of an image without local digest reports that
\* the image is not present locally, exits 0 and pulls nothing.
C8_NoLocalExitsZero ==
    (Finished /\ "update" \in modes /\ C8_NoLocalDigest)
        => /\ exitCode = 0
           /\ "warning: image not found locally" \in TraceOps
           /\ "docker pull" \notin TraceOps

\* C8, amended: update-check of an image without local digest, when the
\* remote digest was obtained, reports that the image is not present locally,
\* exits 0 and pulls nothing; when the remote digest could not be obtained it
\* reports that failure and exits non-zero, pulling nothing.
C8_NoLocalAmended ==
    (Finished /\ "update" \in modes /\ C8_NoLocalDigest)
        => /\ "docker pull" \notin TraceOps
           /\ update.remote # NULL =>
                 exitCode = 0 /\ "warning: image not found locally" \in TraceOps
           /\ update.remote = NULL =>
                 exitCode # 0 /\ "error: failed to check remote image" \in TraceOps

\* update-check found a remote digest and an image without RepoDigests
C8_Witness ==
    /\ Finished
    /\ "update" \in modes
    /\ update.local = NoRepoDigest
    /\ update.remote # NULL
    /\ exitCode = 0
    /\ "warning: image not found locally" \in TraceOps

\* C9: update-check pulls only if the local and the remote digest both exist
\* and differ and the user confirmed the prompt; with equal digests or a
\* declined prompt it pulls nothing; it never starts, execs into or removes
\* a container.
C9_PullOnlyWhenConfirmed ==
    "update" \in modes =>
       /\ "docker pull" \in TraceOps =>
             /\ update.local \notin {"absent", NoRepoDigest}
             /\ update.remote # NULL
             /\ update.local # RepoDigest(update.remote)
             /\ "confirmUpdate" \in TraceOps
             /\ update.confirmed
       /\ (update.checked /\ update.remote # NULL /\ update.local = RepoDigest(update.remote))
             => "docker pull" \notin TraceOps /\ ~update.asked
       /\ (update.asked /\ ~update.confirmed) => "docker pull" \notin TraceOps
       /\ TraceOps \cap (C7_AllOps \ {"docker pull"}) = {}
       /\ ~child.ran /\ ~lastStart.done

\* update-check pulled a differing image after the user confirmed
C9_Witness ==
    /\ Finished
    /\ "update" \in modes
    /\ "docker pull" \in TraceOps
    /\ update.confirmed
    /\ exitCode = 0

\* the Docker availability check of the running invocation failed
C10_DockerFailed ==
    \E i \in DOMAIN trace : trace[i] \in {"error: Docker is not installed",
                                          "error: Docker is not running"}

C10_ChecksDone == Cardinality({i \in DOMAIN trace : trace[i] = "validateDocker"})

\* C10 as stated: on every invocation the Docker availability check comes
\* before any other operation.
C10_DockerCheckFirst == trace # <<>> => trace[1] = "validateDocker"

\* C10, amended: on every invocation without --setup the Docker check is
\* done exactly once and before any other operation, and when it fails the
\* process exits non-zero having done nothing else; an invocation with
\* --setup creates the configuration directories and writes the profile
\* without any Docker check.
C10_DockerCheckAmended ==
    /\ (opts.setup = NULL /\ trace # <<>>) =>
          trace[1] = "validateDocker" /\ C10_ChecksDone = 1
    /\ C10_DockerFailed =>
          /\ Finished /\ exitCode # 0
          /\ Len(trace) = 2
          /\ modes = {} /\ ~child.ran /\ ~lastStart.done /\ ~update.checked
    /\ opts.setup # NULL => C10_ChecksDone = 0

\* Docker was not running: the invocation ended with a non-zero code
C10_Witness ==
    /\ Finished
    /\ C10_DockerFailed
    /\ exitCode # 0
    /\ trace[1] = "validateDocker"

\* the operations that pull an image or start, run or exec into a container
C11_ContainerOps == {"docker pull", "docker-compose up", "docker-compose run", "docker exec"}

C11_InvalidType == opts.type \notin {"claude", "codex", "gemini"}

\* C11 as stated: every invocation with a CLI type other than claude, codex
\* and gemini ends with the non-zero validation code, having pulled, started,
\* run or exec'd nothing and written no profile.
C11_InvalidTypeAlwaysFatal ==
    (Finished /\ C11_InvalidType)
        => /\ exitCode = 1
           /\ TraceOps \cap C11_ContainerOps = {}
           /\ "createProfile" \notin TraceOps

\* C11, amended: every invocation without --setup and without --update whose
\* CLI type is not claude, codex or gemini ends with exit code 1, having
\* pulled, started, run or exec'd nothing and written no profile.  With
\* --setup or --update the CLI type is not validated at all.
C11_InvalidTypeAmended ==
    (C11_InvalidType /\ opts.setup = NULL /\ ~opts.update)
        => /\ TraceOps \cap C11_ContainerOps = {}
           /\ "createProfile" \notin TraceOps
           /\ modes = {}
           /\ pc \in {"parsed", "docker_ok", "done"}
           /\ Finished => exitCode = 1

\* -t gpt: the Docker check passed and the validation ended the invocation
C11_Witness ==
    /\ Finished
    /\ opts.type = "gpt" /\ opts.setup = NULL /\ ~opts.update
    /\ "error: invalid CLI type" \in TraceOps
    /\ exitCode = 1

\* the call of buildEnvironment has ended, by returning or by throwing
C12_Ended == call.state \in {"returned", "threw"}

\* C12: when an environment-file name is given and the project root holds no
\* file of that name, the resolution fails (and names the .env files present)
\* instead of returning a descriptor.
C12_MissingEnvFileFails ==
    (/\ C12_Ended
     /\ Truthy(call.options.envFile)
     /\ call.options.envFile \notin host.projectFiles)
        => call.state = "threw"

C14_ProfileKey == Get(loadProfile(profiles, opts.account), "SSH_KEY_FILE")

\* the key file the profile names is not on disk
C14_KeyMissing ==
    /\ Truthy(C14_ProfileKey)
    /\ ~host.sshDir \/ C14_ProfileKey \notin host.sshFiles

\* C14: whenever the profile names an SSH key file that is not on disk, the
\* resolution does not fail, the warning and the list of the id_* keys
\* present are shown, and the invocation goes on to run the session.
C14_MissingKeyWarned ==
    (C14_KeyMissing /\ pc \notin {"idle", "parsed", "docker_ok", "type_ok"})
        => /\ "warning: SSH key file not found" \in TraceOps
           /\ "listSSHKeys" \in TraceOps
           /\ pc = "done" => "docker exec" \in TraceOps \/ exitCode # 0

\* the value the profile file of the account gives a TOML key, NULL if the
\* file is no TOML or leaves the key out
C15_Override(key) ==
    LET file == profiles[opts.account]
    IN  IF file.fmt = "toml" /\ key \in DOMAIN file.data THEN file.data[key] ELSE NULL

C16_Unparseable == profiles[opts.account].fmt \in {"garbage", "env"}

\* C16: when the profile file of the account exists and cannot be parsed,
\* loading it reports the parse error and yields an empty profile; the
\* invocation goes on and builds the descriptor from the defaults (default
\* image, default directories of the account).
C16_UnparseableProfile ==
    (C16_Unparseable /\ pc \in {"env_ok", "image_ok", "resolved", "done"})
        => /\ "error parsing TOML file" \in TraceOps
           /\ loadProfile(profiles, opts.account) = EmptyObj
           /\ env["DOCKER_IMAGE"] = "ghcr.io/zzev/aibox:latest"
           /\ env["CLAUDE_CONFIG_DIR"] =
                 (IF opts.account = "default" THEN "/home/dev/.claude"
                  ELSE "/home/dev/.claude-" \o opts.account)
           /\ env["CODEX_HOME"] =
                 (IF opts.account = "default" THEN "/home/dev/.codex"
                  ELSE "/home/dev/.codex-" \o opts.account)
           /\ env["AI_ACCOUNT"] = opts.account
           /\ "GIT_AUTHOR_NAME" \notin DOMAIN env
           /\ (pc = "done" /\ exitCode = 0) => child.ran

\* a profile file that is no TOML at all: the session ran
C16_Witness ==
    /\ pc = "done"
    /\ profiles[opts.account] = GarbageFile
    /\ "error parsing TOML file" \in TraceOps
    /\ child.ran

\* the profile the call of buildEnvironment loaded
C17_Profile == loadProfile(profiles, call.options.account)

\* C17: for every profile that lacks GIT_COMMITTER_EMAIL the committer email
\* of the resolved descriptor equals its author email, and for every profile
\* that lacks GIT_COMMITTER_NAME the committer name equals the author name.
C17_CommitterDefaultsToAuthor ==
    call.state = "returned" =>
       /\ "GIT_COMMITTER_EMAIL" \notin DOMAIN C17_Profile =>
             Get(call.env, "GIT_COMMITTER_EMAIL") = Get(call.env, "GIT_AUTHOR_EMAIL")
       /\ "GIT_COMMITTER_NAME" \notin DOMAIN C17_Profile =>
             Get(call.env, "GIT_COMMITTER_NAME") = Get(call.env, "GIT_AUTHOR_NAME")

\* C18: in every step of every sequence of invocations, a profile file that
\* changes was either absent and is created for the account the invocation
\* refers to, or is written by an invocation with --setup for that account;
\* session runs, attach, clean and update-check leave an existing profile
\* file as it is, and update-check creates none.
C18_ProfileWrites ==
    [][\A a \in Accounts :
          profiles'[a] # profiles[a] =>
             \/ opts.setup = a
             \/ /\ opts.setup = NULL /\ ~opts.update
                /\ opts.account = a
                /\ profiles[a] = NoFile]_vars

\* a session ran on an account whose profile file existed: it is still there
C18_Witness ==
    /\ Finished
    /\ "persistent" \in modes
    /\ child.ran
    /\ "loadProfile" \in TraceOps /\ "createProfile" \notin TraceOps
    /\ profiles[opts.account] = OverrideProfile

\* the CLI the profile of the account names, NULL if it names none
C19_ProfileCli == Get(loadProfile(profiles, opts.account), "AI_CLI")

\* C19: without -t on the command line, the CLI run with trailing arguments
\* or with --yolo is the one the profile names as AI_CLI.
C19_ProfileCliIsDefault ==
    (/\ pc = "resolved"
     /\ ~opts.typeGiven /\ ~Truthy(opts.command)
     /\ opts.yolo \/ cliArgs # <<>>
     /\ Truthy(C19_ProfileCli))
        => StartsWith(command, C19_ProfileCli \o " ")

\* an earlier invocation r and the running one agree on the five inputs
C20_SameInputs(r) ==
    /\ r.command = opts.command /\ r.yolo = opts.yolo /\ r.shell = opts.shell
    /\ r.type = opts.type /\ r.args = cliArgs

\* C20 as stated: two invocations that agree on custom command, --yolo,
\* --shell, CLI type and trailing arguments resolve to the same command.
C20_FiveInputsDetermine ==
    pc = "resolved" =>
       \A r \in seen : C20_SameInputs(r) => r.resolved = command

\* C20, amended: two invocations that agree on custom command, --yolo,
\* --shell, CLI type, trailing arguments and on whether -t/--type was written
\* on the command line resolve to the same command and the same
\* interactivity, whatever --remove, the profile and the containers are.
C20_SixInputsDetermine ==
    pc = "resolved" =>
       \A r \in seen :
          (C20_SameInputs(r) /\ r.typeGiven = opts.typeGiven)
             => r.resolved = command /\ r.interactive = isInteractive

\* two invocations with the same inputs, another profile and another --remove
C20_Witness ==
    /\ pc = "resolved"
    /\ \E r \in seen :
          /\ C20_SameInputs(r) /\ r.typeGiven = opts.typeGiven
          /\ r.profile # profiles[opts.account]
          /\ r.remove # opts.remove
          /\ opts.yolo /\ cliArgs # <<>>
          /\ containers # {}
          /\ r.resolved = command

\* the profile of the account the resolver was called for
C21_Profile == loadProfile(profiles, call.options.account)

\* C21: in the descriptor a profile value overrides the built-in default of
\* the same field, and a profile-supplied SSH_KEY_PATH survives the SSH probe.
C21_MergePrecedence ==
    call.state = "returned" =>
       /\ \A k \in DOMAIN C21_Profile \cap {"AI_ACCOUNT", "AI_CLI"} :
             call.env[k] = C21_Profile[k]
       /\ "SSH_KEY_PATH" \in DOMAIN C21_Profile
             => Get(call.env, "SSH_KEY_PATH") = C21_Profile["SSH_KEY_PATH"]

\* the profile declares a key file that is not in ~/.ssh
C22_KeyMissing ==
    /\ Truthy(Get(C21_Profile, "SSH_KEY_FILE"))
    /\ C21_Profile["SSH_KEY_FILE"] \notin host.sshFiles

\* C22: when the profile declares an SSH key file that is not on disk, the
\* descriptor holds neither SSH_KEY_FILE nor SSH_KEY_PATH.
C22_MissingKeyAbsent ==
    (call.state = "returned" /\ C22_KeyMissing)
        => /\ "SSH_KEY_FILE" \notin DOMAIN call.env
           /\ "SSH_KEY_PATH" \notin DOMAIN call.env

\* C23: once a container start or a temporary run was issued, the profile
\* directory, ~/.gemini and the directories the descriptor names as
\* CLAUDE_CONFIG_DIR and CODEX_HOME exist, and creating the directories once
\* more changes nothing.
C23_ConfigDirsExist ==
    (TraceOps \cap {"docker-compose up", "docker-compose run"} # {})
        => /\ {AIBOX_PROFILES_DIR, PathJoin(HOME, ".gemini"),
               env["CLAUDE_CONFIG_DIR"], env["CODEX_HOME"]} \subseteq dirs
           /\ ensureCliConfigDirs(ensureConfigDirs(dirs), profiles, opts.account) = dirs

\* the modes in which main() runs a command in a container
C24_RunModes == {"attach", "persistent", "temporary"}

\* C24: an invocation with --clean that came to remove leftover containers
\* goes on to its run mode whether or not a removal failed, and no failed
\* removal decides its exit code.
C24_CleanFailureSwallowed ==
    (Finished /\ "clean" \in modes /\ "docker rm" \in TraceOps)
        => modes \cap C24_RunModes # {}

\* the operations that start a container or run a command in one
C25_ContainerOps == {"docker-compose up", "docker-compose run", "docker exec"}

\* the invocation pulled its image and the image is still not present
C25_PullFailed ==
    /\ ~opts.update
    /\ "docker pull" \in TraceOps
    /\ ~imageExists(images, env["DOCKER_IMAGE"])

\* C25: a container start, temporary run or exec is issued only with the
\* image present locally, and an invocation whose pull failed ends with a
\* non-zero exit code, having issued no container operation.
C25_PullFailureFatal ==
    /\ (TraceOps \cap C25_ContainerOps # {}) => imageExists(images, env["DOCKER_IMAGE"])
    /\ (Finished /\ C25_PullFailed)
          => exitCode # 0 /\ TraceOps \cap C25_ContainerOps = {}

\* C26: in attach mode the session is opened only after the start-or-reuse
\* step succeeded; when the start step fails no session is opened and the
\* process ends with the error code; otherwise the process exits with the
\* code the session closed with.
C26_AttachAfterStart ==
    (Finished /\ "attach" \in modes) =>
       /\ "docker-compose up" \in TraceOps
       /\ "docker exec" \in TraceOps => lastStart.done
       /\ ~lastStart.done => ("docker exec" \notin TraceOps /\ exitCode = ErrorExitCode)
       /\ (lastStart.done /\ ~child.signalled) => exitCode = child.code

\* an attach whose start step succeeded and whose session closed with code 42
C26_Witness ==
    /\ Finished /\ "attach" \in modes
    /\ lastStart.done
    /\ trace[Len(trace)] = "docker exec" /\ trace[Len(trace) - 1] = "docker-compose up"
    /\ child.ran /\ child.code = 42 /\ exitCode = 42

\* the persistent containers, one per (account, project) identity
C27_Persistent(cs) == {c \in cs : c.kind = "service"}

\* C27: the clean step leaves every persistent container as it found it.
C27_CleanKeepsPersistent ==
    [][("clean" \notin modes /\ "clean" \in modes')
          => C27_Persistent(containers') = C27_Persistent(containers)]_vars

\* C28: the container name exec and attach use equals the name that the
\* AI_ACCOUNT and AIBOX_PROJECT_HASH of the environment imply, and a session
\* issued after a successful start runs in the container.
C28_ExecTargetsStarted ==
    /\ pc \in {"env_ok", "image_ok", "resolved", "done"}
          => containerName = "aibox-" \o env["AI_ACCOUNT"] \o "-" \o env["AIBOX_PROJECT_HASH"]
    /\ (Finished /\ lastStart.done) => child.ran

\* the answers createProfile asks for, by the names it writes them under
C29_Answered ==
    {"GIT_AUTHOR_NAME", "GIT_AUTHOR_EMAIL", "AI_CLI", "CLAUDE_CONFIG_DIR", "CODEX_HOME",
     "SSH_KEY_FILE", "GH_TOKEN"}

\* C29: for a profile file that createProfile wrote, loadProfile returns the
\* git author name and email, the CLI, the config directories, the SSH key
\* file and the token that were entered.
C29_ProfileRoundTrip ==
    \A a \in Accounts :
       profiles[a].fmt = "env" =>
          \A k \in C29_Answered \cap DOMAIN profiles[a].data :
             Get(loadProfile(profiles, a), k) = profiles[a].data[k]

\* C30: for every custom command, --yolo, --shell, -t given or not, CLI type
\* and trailing arguments, cli.js and start.sh choose the same command, up
\* to surrounding whitespace, and the same interactivity.
C30_SameAsShellWrapper ==
    pc = "resolved" =>
       /\ Trim(PrepareCommand(opts, cliArgs).command) = Trim(command)
       /\ PrepareCommand(opts, cliArgs).isInteractive = isInteractive

====
